---- MODULE Spec2Model ----
(***************************************************************************)
(* A model of the platform-detection and mint-transaction pipeline of      *)
(* pelzsniper: the terminal controller's monitor (setInterval polling),    *)
(* handleSnipe, the viem minting engine (getGasPrice, prepareTransaction,  *)
(* execute), the platform manager's module resolution and the generic      *)
(* analyzer's field reads.                                                 *)
(*                                                                         *)
(* Amounts of wei are natural numbers.  Fee quotes are counted in units of *)
(* 10^8 wei so that the engine's default quotes (1.5 gwei, 50 gwei) are    *)
(* the integers 15 and 500; the quote arithmetic is linear, so the unit    *)
(* does not change any comparison.                                         *)
(***************************************************************************)
EXTENDS Integers, Sequences, FiniteSets, Bags, TLC

VARIABLES
    \* TerminalController (monitor mode state and what its timers do)
    isMonitoring,       \* this.isMonitoring
    monitorIntervalId,  \* this.monitorIntervalId (NoTimer: null)
    liveTimers,         \* the intervals set and not yet cleared
    timerQty,           \* the qty each interval's callback closed over
    checks,             \* the callbacks in flight, each at its await (a bag)
    started,            \* the callbacks started so far
    lastResult,         \* what the last typed command printed
    currentContract,    \* this.currentContract (None until a contract is loaded)
    platformContract,   \* this.platformContract
    \* ViemMintingEngine
    preparedTx,         \* this.preparedTx (<<>>: null, <<tx>>: a transaction)
    lastSent,           \* the transaction last handed to sendTransaction
    \* observations of the monitor, kept for the properties
    userStopped,        \* the sessions ended by a typed "snipe stop"
    prepLog,            \* one entry per prepareTransaction call of a callback
    \* PlatformManager.analyze: the last request and its outcome
    pm,
    \* handleSnipe / prepareTransaction: the last request and its outcome
    snipe,
    \* ViemContractAnalyzer.analyze: the reads in flight and the snapshot
    ga

monVars == <<isMonitoring, monitorIntervalId, liveTimers, timerQty, checks,
             started, lastResult, userStopped, prepLog>>
engVars == <<currentContract, platformContract, preparedTx, lastSent>>
vars == <<isMonitoring, monitorIntervalId, liveTimers, timerQty, checks,
          started, lastResult, currentContract, platformContract, preparedTx, lastSent,
          userStopped, prepLog, pm, snipe, ga>>

----------------------------------------------------------------------------
\* Bounds of the model

\* monitor sessions started in one run
MaxSessions == 2
\* poll callbacks started in one run
MaxChecks == 3
\* the larger of the two quantities a monitor session is started with
MaxMonitorQty == 2
\* the largest quantity a mint command asks for
MaxQty == 3
\* the largest per-token price and the largest fixed fee, in wei
MaxPrice == 3
\* the largest fee the network estimate carries, in units of 10^8 wei
MaxFee == 2
\* the largest gas estimate the node returns
MaxGasEst == 3

Min(a, b) == IF a < b THEN a ELSE b

MonitorQtys == {1, MaxMonitorQty}

BagAdd(B, e) == B (+) SetToBag({e})
BagRemove(B, e) == B (-) SetToBag({e})

----------------------------------------------------------------------------
\* ViemMintingEngine.getGasPrice

\* BigInt(1_500_000_000), in units of 10^8 wei
DefaultPriorityFee == 15
\* BigInt(50_000_000_000), in units of 10^8 wei
DefaultMaxFee == 500
\* the turbo multiplier BigInt(10)
TurboMultiplier == 10

\* a quote that ignores turbo
priorityMultiplierFlat(turbo) == 1

\* turbo ? BigInt(10) : BigInt(1)
priorityMultiplier(turbo) == IF turbo THEN TurboMultiplier ELSE 1

\* feeData.maxPriorityFeePerGas || BigInt(1_500_000_000): 0 stands for every
\* falsy estimate (0n, null, undefined)
basePriority(feeData) ==
    IF feeData.maxPriorityFeePerGas # 0 THEN feeData.maxPriorityFeePerGas
    ELSE DefaultPriorityFee

getGasPrice(feeData, turbo) ==
    [maxFeePerGas |-> IF feeData.maxFeePerGas # 0 THEN feeData.maxFeePerGas
                      ELSE DefaultMaxFee,
     maxPriorityFeePerGas |-> basePriority(feeData) * priorityMultiplier(turbo)]

FeeEstimates == [maxFeePerGas : 0..MaxFee, maxPriorityFeePerGas : 0..MaxFee]

----------------------------------------------------------------------------
\* Snapshots

\* null / undefined, and a present value v as <<v>>
None == <<>>
Some(v) == <<v>>

\* A mint signature is the pair <<name, parameter list>>, so that
\* mintFunction.split('(')[0] is its first component.
MintSig == <<"mint", "(uint256)">>

\* a total that charges the protocol fee on every token
getTotalValuePerToken(info, quantity) ==
    (info.mintPrice + info.protocolFee) * quantity

\* PlatformContractInfo.getTotalValue of the snapshots the modules build
getTotalValue(info, quantity) ==
    IF info.platform = "nfts2me"
    THEN (info.mintPrice * quantity) + info.protocolFee
    ELSE info.mintPrice * quantity

\* handleContract: the ContractInfo stored as this.currentContract beside
\* this.platformContract
currentContractOf(platformInfo) ==
    [address |-> platformInfo.address,
     mintFunction |-> platformInfo.mintFunction,
     mintPrice |-> platformInfo.mintPrice,
     isActive |-> platformInfo.isActive]

----------------------------------------------------------------------------
\* ViemMintingEngine.prepareTransaction

\* gasLimit = BigInt(500000) when the simulation is skipped
TurboGasLimit == 500000
\* gasLimit = BigInt(300000) when estimateGas throws
DefaultGasLimit == 300000
\* (est * BigInt(120)) / BigInt(100)
GasBufferNum == 120
GasBufferDen == 100

Hx(a, b, c, d, e, f, g, h) == <<"0", "x", a, b, c, d, e, f, g, h>>

\* The static table of custom-error selectors, keyed by the 10 characters
\* "0x" + 8 hex digits.
ERROR_SELECTORS ==
    { [selector |-> Hx("c","2","8","8","b","f","8","f"),
       message |-> "MintNotActive() - The mint is not currently active"],
      [selector |-> Hx("3","c","5","5","b","5","3","b"),
       message |-> "SaleNotStarted() - Sale has not started yet"],
      [selector |-> Hx("6","f","7","e","a","c","2","6"),
       message |-> "MaxSupplyReached() - No more tokens available"],
      [selector |-> Hx("8","e","4","a","2","3","d","6"),
       message |-> "ExceedsWalletLimit() - You have reached the max per wallet"],
      [selector |-> Hx("b","1","b","a","f","4","f","3"),
       message |-> "InsufficientPayment() - Not enough ETH sent"],
      [selector |-> Hx("2","1","d","5","e","f","b","2"),
       message |-> "InvalidMintAmount() - Invalid quantity"],
      [selector |-> Hx("2","c","5","2","1","1","c","6"),
       message |-> "InvalidProof() - Allowlist proof invalid"],
      [selector |-> Hx("c","d","7","8","6","0","5","9"),
       message |-> "InvalidPrice() - Incorrect price sent"],
      [selector |-> Hx("6","4","6","c","f","5","5","8"),
       message |-> "Paused() - Contract is paused"],
      [selector |-> Hx("a","1","d","1","e","8","d","6"),
       message |-> "NotWhitelisted() - Not on allowlist"] }

\* ERROR_SELECTORS[errorSelector]: the message, or "" (undefined, falsy)
selectorMessage(errorSelector) ==
    IF \E e \in ERROR_SELECTORS : e.selector = errorSelector
    THEN (CHOOSE e \in ERROR_SELECTORS : e.selector = errorSelector).message
    ELSE ""

\* a slice that drops the "0x" prefix's room: 8 characters
errorSelectorOfShort(data) == SubSeq(data, 1, Min(8, Len(data)))

\* rpcError.data.slice(0, 10)
errorSelectorOf(data) == SubSeq(data, 1, Min(10, Len(data)))

\* A reason is `text`, or `Custom Error: ${selector}` followed by text.
TextReason(text) == [kind |-> "text", text |-> text, selector |-> <<>>]
CustomReason(sel) ==
    [kind |-> "custom", text |-> " (Check contract source for meaning)",
     selector |-> sel]

\* The reason when the error carries none
ExecutionReverted == TextReason("Execution reverted")

\* The reason decoded from the error e the dry-run threw.  e.data is
\* e.cause?.cause?.data when it is a non-empty string (a sequence of
\* characters) and <<>> otherwise; the other fields are "" when absent.
simulationReason(e) ==
    IF e.data # <<>>
    THEN IF selectorMessage(errorSelectorOf(e.data)) # ""
         THEN TextReason(selectorMessage(errorSelectorOf(e.data)))
         ELSE CustomReason(errorSelectorOf(e.data))
    ELSE IF e.causeReason # "" THEN TextReason(e.causeReason)
    ELSE IF e.causeShortMessage # "" THEN TextReason(e.causeShortMessage)
    ELSE IF e.shortMessage # "" THEN TextReason(e.shortMessage)
    ELSE IF e.details # "" THEN TextReason(e.details)
    ELSE ExecutionReverted

ZeroPriceHint == "Price is 0 ETH - verify this is correct or use --price"
NotActiveHint == "Contract shows mint may not be active"

\* an error that carries no hints
simulationHintsNone(contract) == <<>>

simulationHints(contract) ==
    (IF contract.mintPrice = 0 THEN <<ZeroPriceHint>> ELSE <<>>)
    \o (IF ~contract.isActive THEN <<NotActiveHint>> ELSE <<>>)

\* new Error(`Simulation Failed: ${reason}${contextHint}`)
simulationError(contract, e) ==
    [prefix |-> "Simulation Failed: ", reason |-> simulationReason(e),
     hints |-> simulationHints(contract)]

\* encodeFunctionData over the three-function mint ABI; an unknown name
\* throws and the data falls back to the mint(uint256) selector 0xa0712d68.
MintAbiNames == {"mint", "publicMint", "purchase"}

encodeMintData(contract, quantity) ==
    LET functionName == contract.mintFunction[1]
    IN  IF functionName \in MintAbiNames
        THEN [fn |-> functionName, args |-> <<quantity>>]
        ELSE [fn |-> "mint", args |-> <<quantity>>]

\* pricePerToken * BigInt(quantity)
txValue(contract, quantity, priceOverride) ==
    (IF priceOverride # None THEN priceOverride[1] ELSE contract.mintPrice)
    * quantity

\* a gas limit without the safety margin
gasLimitOfNoBuffer(skipSimulation, est) ==
    IF skipSimulation THEN TurboGasLimit
    ELSE IF est # None THEN est[1]
    ELSE DefaultGasLimit

\* The gas limit and the RPC calls made for it.  est is None when
\* estimateGas throws.
gasLimitOf(skipSimulation, est) ==
    IF skipSimulation THEN TurboGasLimit
    ELSE IF est # None THEN (est[1] * GasBufferNum) \div GasBufferDen
    ELSE DefaultGasLimit

\* prepareTransaction with a connected account.  sim is None when the
\* dry-run call succeeds and Some(e) when it throws e; est is the gas
\* estimate or None.  The result names the transaction returned (and stored
\* as this.preparedTx), the error thrown, and the RPC calls made.
prepareTransaction(contract, quantity, gasSettings, priceOverride, skipSimulation, sim, est) ==
    LET tx == [to |-> contract.address,
               data |-> encodeMintData(contract, quantity),
               value |-> txValue(contract, quantity, priceOverride),
               gas |-> gasLimitOf(skipSimulation, est),
               maxFeePerGas |-> gasSettings.maxFeePerGas,
               maxPriorityFeePerGas |-> gasSettings.maxPriorityFeePerGas]
    IN  IF ~skipSimulation /\ sim # None
        THEN [tx |-> None, error |-> Some(simulationError(contract, sim[1])),
              rpc |-> <<"call">>]
        ELSE [tx |-> Some(tx), error |-> None,
              rpc |-> IF skipSimulation THEN <<>>
                      ELSE <<"call", "estimateGas">>]

----------------------------------------------------------------------------
\* TerminalController.handleSnipe: the price override handed to
\* prepareTransaction.  flagPrice is None or Some(parseEther(flags.price));
\* platform is this.platformContract and contract this.currentContract.
snipePriceOverride(flagPrice, platform, contract, qty) ==
    IF flagPrice # None THEN flagPrice
    ELSE IF platform # None
    THEN LET platformValue == getTotalValue(platform[1], qty)
         IN  IF platformValue # contract.mintPrice * qty
             THEN Some(platformValue \div qty)
             ELSE None
    ELSE None

----------------------------------------------------------------------------
\* TerminalController: monitor mode.  An async callback runs to its next
\* await in one step; the awaited request completes in a later step.

\* monitorIntervalId = null
NoTimer == 0

\* The request records of the other components while they are not in use
Idle == [op |-> "idle"]

\* The snapshot loaded before the monitor is started
LoadedInfo ==
    [address |-> "token", platform |-> "generic", mintFunction |-> MintSig,
     mintPrice |-> 1, protocolFee |-> 0, isActive |-> FALSE,
     routerContract |-> None]

\* this.currentContract for that snapshot
LoadedContract == currentContractOf(LoadedInfo)

\* The fee estimate the node returns to a monitor-fired snipe
MonitorFeeData == [maxFeePerGas |-> 1, maxPriorityFeePerGas |-> 1]

\* a stop that flips the flag instead of clearing it
stopMonitorToggle ==
    /\ liveTimers' = IF monitorIntervalId # NoTimer
                     THEN liveTimers \ {monitorIntervalId}
                     ELSE liveTimers
    /\ monitorIntervalId' = NoTimer
    /\ isMonitoring' = ~isMonitoring

\* stopMonitor(): clearInterval on the stored handle, then the flag
stopMonitor ==
    /\ liveTimers' = IF monitorIntervalId # NoTimer
                     THEN liveTimers \ {monitorIntervalId}
                     ELSE liveTimers
    /\ monitorIntervalId' = NoTimer
    /\ isMonitoring' = FALSE

\* a handleMonitor without its isMonitoring guard
handleMonitorUnguarded(qty) ==
    LET id == Cardinality(DOMAIN timerQty) + 1
    IN  /\ id <= MaxSessions
        /\ isMonitoring' = TRUE
        /\ monitorIntervalId' = id
        /\ liveTimers' = liveTimers \cup {id}
        /\ timerQty' = (id :> qty) @@ timerQty
        /\ lastResult' = "monitor started"
        /\ UNCHANGED <<checks, started, userStopped, prepLog, engVars, pm,
                       snipe, ga>>

\* "snipe monitor --qty qty": handleMonitor with a contract loaded and the
\* wallet on the contract's chain
handleMonitor(qty) ==
    /\ IF isMonitoring
       THEN /\ lastResult' = "already monitoring"
            /\ UNCHANGED <<isMonitoring, monitorIntervalId, liveTimers, timerQty>>
       ELSE LET id == Cardinality(DOMAIN timerQty) + 1
            IN  /\ id <= MaxSessions
                /\ isMonitoring' = TRUE
                /\ monitorIntervalId' = id
                /\ liveTimers' = liveTimers \cup {id}
                /\ timerQty' = (id :> qty) @@ timerQty
                /\ lastResult' = "monitor started"
    /\ UNCHANGED <<checks, started, userStopped, prepLog, engVars, pm, snipe,
                   ga>>

\* "snipe stop"
handleStop ==
    /\ stopMonitor
    /\ userStopped' = IF isMonitoring THEN userStopped \cup {monitorIntervalId}
                      ELSE userStopped
    /\ lastResult' = IF isMonitoring THEN "monitor stopped" ELSE "nothing to stop"
    /\ UNCHANGED <<timerQty, checks, started, prepLog, engVars, pm, snipe, ga>>

\* The setInterval callback of timer t up to its await of analyzer.analyze
intervalTick(t) ==
    /\ t \in liveTimers
    /\ started < MaxChecks
    /\ started' = started + 1
    /\ IF ~isMonitoring
       THEN /\ stopMonitor
            /\ UNCHANGED checks
       ELSE /\ checks' = BagAdd(checks, [timer |-> t, qty |-> timerQty[t],
                                         pc |-> "analyze",
                                         priceOverride |-> None])
            /\ UNCHANGED <<isMonitoring, monitorIntervalId, liveTimers>>
    /\ UNCHANGED <<timerQty, lastResult, userStopped, prepLog, engVars, pm,
                   snipe, ga>>

\* a callback that fires the snipe without stopping the monitor first
analyzeDoneKeepPolling(c, outcome) ==
    /\ c \in BagToSet(checks)
    /\ c.pc = "analyze"
    /\ IF outcome = "active"
       THEN checks' = BagAdd(BagRemove(checks, c),
                 [c EXCEPT !.pc = "gas",
                           !.priceOverride =
                               snipePriceOverride(None, platformContract,
                                                  currentContract[1], c.qty)])
       ELSE checks' = BagRemove(checks, c)
    /\ UNCHANGED <<isMonitoring, monitorIntervalId, liveTimers, timerQty,
                   started, lastResult, userStopped, prepLog, engVars, pm,
                   snipe, ga>>

\* a callback whose catch gives the session up
analyzeDoneStopOnThrow(c, outcome) ==
    /\ c \in BagToSet(checks)
    /\ c.pc = "analyze"
    /\ IF outcome = "active"
       THEN /\ stopMonitor
            /\ checks' = BagAdd(BagRemove(checks, c),
                 [c EXCEPT !.pc = "gas",
                           !.priceOverride =
                               snipePriceOverride(None, platformContract,
                                                  currentContract[1], c.qty)])
       ELSE /\ checks' = BagRemove(checks, c)
            /\ IF outcome = "throws" THEN stopMonitor
               ELSE UNCHANGED <<isMonitoring, monitorIntervalId, liveTimers>>
    /\ lastResult' = IF outcome = "throws" THEN "check failed" ELSE lastResult
    /\ UNCHANGED <<timerQty, started, userStopped, prepLog, engVars, pm,
                   snipe, ga>>

\* The callback c resumes with the outcome of analyze: "throws", "inactive"
\* or "active" (freshInfo.isActive).  On "active" it calls stopMonitor and
\* then handleSnipe(['start'], {qty}), which runs to its await of
\* getGasPrice.  On "throws" the catch writes "Check failed" and the
\* callback ends.
analyzeDone(c, outcome) ==
    /\ c \in BagToSet(checks)
    /\ c.pc = "analyze"
    /\ IF outcome = "active"
       THEN /\ stopMonitor
            /\ checks' = BagAdd(BagRemove(checks, c),
                 [c EXCEPT !.pc = "gas",
                           !.priceOverride =
                               snipePriceOverride(None, platformContract,
                                                  currentContract[1], c.qty)])
       ELSE /\ checks' = BagRemove(checks, c)
            /\ UNCHANGED <<isMonitoring, monitorIntervalId, liveTimers>>
    /\ lastResult' = IF outcome = "throws" THEN "check failed" ELSE lastResult
    /\ UNCHANGED <<timerQty, started, userStopped, prepLog, engVars, pm,
                   snipe, ga>>

\* getGasPrice resolves and handleSnipe calls prepareTransaction, which runs
\* to its await of the dry-run call; or getGasPrice throws into the
\* callback's catch.
gasDone(c, ok) ==
    /\ c \in BagToSet(checks)
    /\ c.pc = "gas"
    /\ IF ok
       THEN /\ checks' = BagAdd(BagRemove(checks, c), [c EXCEPT !.pc = "prepare"])
            /\ prepLog' = BagAdd(prepLog,
                 [timer |-> c.timer, qty |-> c.qty,
                  afterStop |-> c.timer \in userStopped])
       ELSE /\ checks' = BagRemove(checks, c)
            /\ UNCHANGED prepLog
    /\ UNCHANGED <<isMonitoring, monitorIntervalId, liveTimers, timerQty,
                   started, lastResult, userStopped, engVars, pm, snipe, ga>>

\* The dry-run and the gas estimate complete.  A failed dry-run throws into
\* the callback's catch; otherwise the engine stores the transaction and
\* handleSnipe calls execute(), which hands this.preparedTx to
\* sendTransaction; whether that resolves or throws, the callback ends.
prepareDone(c, sim, est) ==
    /\ c \in BagToSet(checks)
    /\ c.pc = "prepare"
    /\ checks' = BagRemove(checks, c)
    /\ LET r == prepareTransaction(currentContract[1], c.qty,
                                   getGasPrice(MonitorFeeData, FALSE),
                                   c.priceOverride, FALSE, sim, est)
       IN  IF r.tx = None
           THEN UNCHANGED <<preparedTx, lastSent>>
           ELSE /\ preparedTx' = r.tx
                /\ lastSent' = r.tx
    /\ UNCHANGED <<isMonitoring, monitorIntervalId, liveTimers, timerQty,
                   started, lastResult, userStopped, prepLog, currentContract,
                   platformContract, pm, snipe, ga>>

\* A dry-run failure without revert data
PlainRevert ==
    [data |-> <<>>, causeReason |-> "", causeShortMessage |-> "",
     shortMessage |-> "", details |-> ""]

\* What the dry-run answers: success, or a revert
SimOutcomes == {None, Some(PlainRevert)}

\* How the monitor's analyze request ends
AnalyzeOutcomes == {"throws", "inactive", "active"}

InitMonitor ==
    /\ isMonitoring = FALSE
    /\ monitorIntervalId = NoTimer
    /\ liveTimers = {}
    /\ timerQty = <<>>
    /\ checks = EmptyBag
    /\ started = 0
    /\ lastResult = ""
    /\ currentContract = Some(LoadedContract)
    /\ platformContract = Some(LoadedInfo)
    /\ preparedTx = None
    /\ lastSent = None
    /\ userStopped = {}
    /\ prepLog = EmptyBag
    /\ pm = Idle
    /\ snipe = Idle
    /\ ga = Idle

NextMonitor ==
    \/ \E qty \in MonitorQtys : handleMonitor(qty)
    \/ handleStop
    \/ \E t \in 1..MaxSessions : intervalTick(t)
    \/ \E c \in BagToSet(checks), outcome \in AnalyzeOutcomes :
          analyzeDone(c, outcome)
    \/ \E c \in BagToSet(checks), ok \in BOOLEAN : gasDone(c, ok)
    \/ \E c \in BagToSet(checks), sim \in SimOutcomes :
          prepareDone(c, sim, Some(1))

SpecMonitor == InitMonitor /\ [][NextMonitor]_vars

----------------------------------------------------------------------------
\* The engine and the snipe command on their own

\* The snapshots PlatformManager.analyze hands to handleContract: a flat-fee
\* (NFTs2Me) one with its protocol fee, or a generic one without fees
Snapshots ==
    { [address |-> "token", platform |-> "nfts2me", mintFunction |-> MintSig,
       mintPrice |-> p, protocolFee |-> f, isActive |-> a,
       routerContract |-> None] :
      p \in 0..MaxPrice, f \in 0..MaxPrice, a \in BOOLEAN }
    \cup
    { [address |-> "token", platform |-> "generic", mintFunction |-> MintSig,
       mintPrice |-> p, protocolFee |-> 0, isActive |-> a,
       routerContract |-> None] :
      p \in 0..MaxPrice, a \in BOOLEAN }

\* "contract load <address>": handleContract stores the snapshot
handleContract(info) ==
    /\ platformContract' = Some(info)
    /\ currentContract' = Some(currentContractOf(info))
    /\ snipe' = [op |-> "load"]
    /\ UNCHANGED <<monVars, preparedTx, lastSent, pm, ga>>

\* handleSnipe without a contract: it reports and returns
SnipeRefused ==
    [op |-> "snipe", error |-> "No contract loaded or wallet connected"]

\* "snipe start --qty qty [--turbo] [--price p]" with the engine connected
\* and the wallet on the contract's chain, from the command to its end.
\* sim and est are what the node answers to the dry-run and to estimateGas.
handleSnipeStart(qty, turbo, flagPrice, feeData, sim, est) ==
    /\ IF currentContract = None
       THEN /\ snipe' = SnipeRefused
            /\ UNCHANGED <<preparedTx, lastSent>>
       ELSE LET priceOverride == snipePriceOverride(flagPrice, platformContract,
                                                    currentContract[1], qty)
                gasSettings == getGasPrice(feeData, turbo)
                r == prepareTransaction(currentContract[1], qty, gasSettings,
                                        priceOverride, turbo, sim, est)
            IN  /\ snipe' = [op |-> "snipe", error |-> "", qty |-> qty,
                             turbo |-> turbo, flagPrice |-> flagPrice,
                             priceOverride |-> priceOverride, result |-> r]
                /\ preparedTx' = IF r.tx # None THEN r.tx ELSE preparedTx
                /\ lastSent' = IF r.tx # None THEN r.tx ELSE lastSent
    /\ UNCHANGED <<monVars, currentContract, platformContract, pm, ga>>

InitEngine ==
    /\ isMonitoring = FALSE
    /\ monitorIntervalId = NoTimer
    /\ liveTimers = {}
    /\ timerQty = <<>>
    /\ checks = EmptyBag
    /\ started = 0
    /\ lastResult = ""
    /\ currentContract = None
    /\ platformContract = None
    /\ preparedTx = None
    /\ lastSent = None
    /\ userStopped = {}
    /\ prepLog = EmptyBag
    /\ pm = Idle
    /\ snipe = Idle
    /\ ga = Idle

\* --price absent, or given
FlagPrices == {None, Some(MaxPrice)}

NextSnipe ==
    \/ \E info \in Snapshots : handleContract(info)
    \/ \E qty \in 1..MaxQty, turbo \in BOOLEAN,
          flagPrice \in FlagPrices, sim \in SimOutcomes :
          handleSnipeStart(qty, turbo, flagPrice, MonitorFeeData, sim, Some(1))

SpecSnipe == InitEngine /\ [][NextSnipe]_vars

\* C3: with no price override and a platform total that differs from
\* mintPrice * quantity, the prepared transaction's value is
\* getTotalValue(quantity).
C3_ValueIsPlatformTotal ==
    ( /\ snipe.op = "snipe"
      /\ snipe.error = ""
      /\ snipe.flagPrice = None
      /\ snipe.result.tx # None
      /\ getTotalValue(platformContract[1], snipe.qty)
            # currentContract[1].mintPrice * snipe.qty )
    => snipe.result.tx[1].value = getTotalValue(platformContract[1], snipe.qty)

----------------------------------------------------------------------------
\* The snapshot's getTotalValue called for a quantity

callTotalValue(info, quantity) ==
    /\ ga' = [op |-> "total", info |-> info, quantity |-> quantity,
              total |-> getTotalValue(info, quantity)]
    /\ UNCHANGED <<monVars, engVars, pm, snipe>>

NextTotal ==
    \E info \in Snapshots, quantity \in 1..MaxQty : callTotalValue(info, quantity)

SpecTotal == InitEngine /\ [][NextTotal]_vars

----------------------------------------------------------------------------
\* The engine called directly: getGasPrice(turbo), then prepareTransaction

enginePrepare(contract, quantity, feeData, turbo, priceOverride, skipSimulation, sim, est) ==
    LET gasSettings == getGasPrice(feeData, turbo)
        r == prepareTransaction(contract, quantity, gasSettings, priceOverride,
                                skipSimulation, sim, est)
    IN  /\ snipe' = [op |-> "prepare", contract |-> contract,
                     quantity |-> quantity, priceOverride |-> priceOverride,
                     feeData |-> feeData, turbo |-> turbo,
                     gasSettings |-> gasSettings,
                     skipSimulation |-> skipSimulation, sim |-> sim,
                     est |-> est, result |-> r]
        /\ preparedTx' = IF r.tx # None THEN r.tx ELSE preparedTx
        /\ UNCHANGED <<monVars, currentContract, platformContract, lastSent,
                       pm, ga>>

\* An estimate is a multiple of GasEstimateUnit, which the 20% buffer does
\* not divide evenly
GasEstimateUnit == 21001

GasEstimates == {None} \cup {Some(g * GasEstimateUnit) : g \in 1..MaxGasEst}

NextGas ==
    \E feeData \in FeeEstimates, turbo \in BOOLEAN, skipSimulation \in BOOLEAN,
       sim \in SimOutcomes, est \in GasEstimates :
       enginePrepare(LoadedContract, 1, feeData, turbo, None,
                     skipSimulation, sim, est)

SpecGas == InitEngine /\ [][NextGas]_vars

\* C6: the turbo quote carries 10 x the normal quote's priority fee and the
\* normal quote's max fee, for the same fee estimate; a prepare with
\* skipSimulation makes neither the dry-run call nor the gas-estimate call
\* and returns gas = 500000.
C6_TurboQuote ==
    snipe.op = "prepare" =>
      /\ snipe.turbo =>
           /\ snipe.gasSettings.maxPriorityFeePerGas
                = 10 * getGasPrice(snipe.feeData, FALSE).maxPriorityFeePerGas
           /\ snipe.gasSettings.maxFeePerGas
                = getGasPrice(snipe.feeData, FALSE).maxFeePerGas
      /\ snipe.skipSimulation =>
           /\ snipe.result.rpc = <<>>
           /\ snipe.result.tx # None
           /\ snipe.result.tx[1].gas = 500000

\* C6 witness: a turbo prepare with the simulation skipped, on a fee
\* estimate with a priority fee of its own and a dry-run that would revert
C6_Witness ==
    /\ snipe.op = "prepare"
    /\ snipe.turbo
    /\ snipe.skipSimulation
    /\ snipe.sim # None
    /\ snipe.feeData.maxPriorityFeePerGas > 0
    /\ snipe.result.tx # None

\* C24: a prepare whose simulation ran and succeeded returns a transaction
\* and no error; its gas limit is floor(estimate * 120 / 100) when
\* estimateGas answered and 300000 when estimateGas raised.
C24_GasLimit ==
    (snipe.op = "prepare" /\ ~snipe.skipSimulation /\ snipe.sim = None) =>
      /\ snipe.result.error = None
      /\ snipe.result.tx # None
      /\ preparedTx = snipe.result.tx
      /\ snipe.result.tx[1].gas =
           IF snipe.est = None THEN 300000
           ELSE CHOOSE n \in 0..(2 * snipe.est[1]) :
                  /\ 100 * n <= 120 * snipe.est[1]
                  /\ 120 * snipe.est[1] < 100 * (n + 1)

\* C24 witness: a prepare whose dry-run succeeded and whose estimateGas
\* raised; the transaction carries the default ceiling
C24_Witness ==
    /\ snipe.op = "prepare"
    /\ ~snipe.skipSimulation
    /\ snipe.sim = None
    /\ snipe.est = None
    /\ snipe.result.tx # None
    /\ snipe.result.tx[1].gas = 300000

\* C28: when the network estimate carries both fees and its priority fee
\* does not exceed its max fee, the quote, normal or turbo, and the
\* transaction prepared with it have maxPriorityFeePerGas <= maxFeePerGas.
C28_ValidFeePair ==
    (/\ snipe.op = "prepare"
     /\ snipe.feeData.maxPriorityFeePerGas # 0
     /\ snipe.feeData.maxFeePerGas # 0
     /\ snipe.feeData.maxPriorityFeePerGas <= snipe.feeData.maxFeePerGas)
    => /\ snipe.gasSettings.maxPriorityFeePerGas
            <= snipe.gasSettings.maxFeePerGas
       /\ snipe.result.tx # None =>
            snipe.result.tx[1].maxPriorityFeePerGas
              <= snipe.result.tx[1].maxFeePerGas

----------------------------------------------------------------------------
\* The call data and the value.  Prices are in units of 10^8 wei.

\* 0.01 ETH = 10^16 wei
HundredthEther == 100000000

\* The names the modules and the analyzers put in mintFunction: those of the
\* engine's mint ABI, and the Dutch-auction module's mintDutch
MintFunctionNames == {"mint", "publicMint", "purchase", "mintDutch"}

EncodeContracts ==
    { [address |-> "token", mintFunction |-> <<f, "(uint256)">>,
       mintPrice |-> p, isActive |-> TRUE] :
      f \in MintFunctionNames, p \in {0, 1, HundredthEther} }

PriceOverrides == {None, Some(MaxPrice)}

NextEncode ==
    \E contract \in EncodeContracts, quantity \in 1..MaxQty,
       priceOverride \in PriceOverrides, skipSimulation \in BOOLEAN :
       enginePrepare(contract, quantity, MonitorFeeData, FALSE, priceOverride,
                     skipSimulation, None, Some(1))

SpecEncode == InitEngine /\ [][NextEncode]_vars

\* C13: with no price override, prepare returns value = mintPrice * n and
\* call data that encodes the function named by mintFunction with n as its
\* sole argument.
C13_ValueAndCallData ==
    (/\ snipe.op = "prepare"
     /\ snipe.priceOverride = None
     /\ snipe.result.tx # None)
    => /\ snipe.result.tx[1].value = snipe.contract.mintPrice * snipe.quantity
       /\ snipe.result.tx[1].data.fn = snipe.contract.mintFunction[1]
       /\ snipe.result.tx[1].data.args = <<snipe.quantity>>

----------------------------------------------------------------------------
\* The dry-run's failures.  A revert payload is the string the node returns
\* as the error's data: "0x" and the lowercase hex digits of the bytes.

UnknownSelector == Hx("d","e","a","d","b","e","e","f")
\* MintNotActive()'s selector with its last digit changed
NearSelector == Hx("c","2","8","8","b","f","8","e")

RevertPayloads ==
    { e.selector : e \in ERROR_SELECTORS }
    \cup { e.selector \o <<"0", "0">> : e \in ERROR_SELECTORS }
    \cup { UnknownSelector, UnknownSelector \o <<"0", "0">>,
           NearSelector, NearSelector \o <<"f", "f">> }
    \cup { <<"0", "x">>, <<"0", "x", "c", "2", "8", "8">> }

\* The errors publicClient.call throws: with revert data (and the other
\* message fields all absent or all present), or without data and with the
\* message fields present from one of them on.
SimErrors ==
    { [data |-> d, causeReason |-> t, causeShortMessage |-> t,
       shortMessage |-> t, details |-> t] :
      d \in RevertPayloads, t \in {"", "execution reverted"} }
    \cup
    { [data |-> <<>>,
       causeReason |-> IF k <= 1 THEN "cause.reason" ELSE "",
       causeShortMessage |-> IF k <= 2 THEN "cause.shortMessage" ELSE "",
       shortMessage |-> IF k <= 3 THEN "shortMessage" ELSE "",
       details |-> IF k <= 4 THEN "details" ELSE ""] : k \in 1..5 }

DecodeContracts ==
    { [address |-> "token", mintFunction |-> MintSig, mintPrice |-> p,
       isActive |-> a] : p \in {0, 1}, a \in BOOLEAN }

\* What the dry-run answers: success, or one of the errors
DecodeOutcomes == {None} \cup {Some(e) : e \in SimErrors}

NextDecode ==
    \E contract \in DecodeContracts, skipSimulation \in BOOLEAN,
       sim \in DecodeOutcomes :
       enginePrepare(contract, 1, MonitorFeeData, FALSE, None, skipSimulation,
                     sim, Some(1))

SpecDecode == InitEngine /\ [][NextDecode]_vars

\* The dry-run ran and reverted with a payload of at least 4 bytes
RevertedWithSelector ==
    /\ snipe.op = "prepare"
    /\ ~snipe.skipSimulation
    /\ snipe.sim # None
    /\ Len(snipe.sim[1].data) >= 10

\* C10: when the dry-run reverts with a payload whose first 4 bytes are a
\* selector of the table, the error prepare raises carries exactly the
\* table's message for it; when they match no entry, the message is
\* "Custom Error: <selector>" with that literal selector.
C10_SelectorDecoded ==
    RevertedWithSelector =>
      LET sel == SubSeq(snipe.sim[1].data, 1, 10)
          err == snipe.result.error
      IN  /\ snipe.result.tx = None
          /\ err # None
          /\ \A e \in ERROR_SELECTORS :
               sel = e.selector =>
                 /\ err[1].reason.kind = "text"
                 /\ err[1].reason.text = e.message
          /\ (\A e \in ERROR_SELECTORS : sel # e.selector) =>
                 /\ err[1].reason.kind = "custom"
                 /\ err[1].reason.selector = sel

\* C10 witness: a revert with Paused()'s selector followed by more bytes,
\* decoded to the table's message
C10_Witness ==
    /\ RevertedWithSelector
    /\ snipe.sim[1].data = Hx("6","4","6","c","f","5","5","8") \o <<"0", "0">>
    /\ snipe.result.error # None
    /\ snipe.result.error[1].reason.text = "Paused() - Contract is paused"

\* The dry-run ran and failed
SimulationFailed ==
    /\ snipe.op = "prepare"
    /\ ~snipe.skipSimulation
    /\ snipe.sim # None

\* C11: when the simulation is not skipped and the dry-run fails, prepare
\* raises an error and returns no transaction, without attempting the gas
\* estimate; the error carries the decoded reason, then the zero-price hint
\* exactly when mintPrice is 0 and the not-active hint exactly when isActive
\* is false.
C11_SimulationFailureAborts ==
    SimulationFailed =>
      LET e == snipe.sim[1]
          err == snipe.result.error
          hasHint(h) == \E k \in DOMAIN err[1].hints : err[1].hints[k] = h
      IN  /\ snipe.result.tx = None
          /\ snipe.result.rpc = <<"call">>
          /\ err # None
          /\ err[1].prefix = "Simulation Failed: "
          /\ e.data # <<>> =>
                \/ /\ err[1].reason.kind = "text"
                   /\ \E s \in ERROR_SELECTORS :
                        /\ s.selector = SubSeq(e.data, 1, Min(10, Len(e.data)))
                        /\ s.message = err[1].reason.text
                \/ /\ err[1].reason.kind = "custom"
                   /\ err[1].reason.selector = SubSeq(e.data, 1, Min(10, Len(e.data)))
          /\ e.data = <<>> =>
                /\ err[1].reason.kind = "text"
                /\ err[1].reason.text =
                     (IF e.causeReason # "" THEN e.causeReason
                      ELSE IF e.causeShortMessage # "" THEN e.causeShortMessage
                      ELSE IF e.shortMessage # "" THEN e.shortMessage
                      ELSE IF e.details # "" THEN e.details
                      ELSE "Execution reverted")
          /\ hasHint("Price is 0 ETH - verify this is correct or use --price")
                <=> snipe.contract.mintPrice = 0
          /\ hasHint("Contract shows mint may not be active")
                <=> ~snipe.contract.isActive
          /\ Len(err[1].hints) = (IF snipe.contract.mintPrice = 0 THEN 1 ELSE 0)
                                 + (IF snipe.contract.isActive THEN 0 ELSE 1)

\* C11 witness: the dry-run of a free, inactive mint fails and the error
\* carries both hints
C11_Witness ==
    /\ SimulationFailed
    /\ snipe.contract.mintPrice = 0
    /\ ~snipe.contract.isActive
    /\ snipe.result.tx = None
    /\ snipe.result.error # None
    /\ Len(snipe.result.error[1].hints) = 2

----------------------------------------------------------------------------
\* PlatformManager.  A registered module is known by its name; what its
\* detect and its analyze do for the address at hand is an input of the
\* request: det[i] is "true", "false" or "throws", ana[i] is "ok" or
\* "throws", for the i-th registered module.

\* modules registered in one run
NumModules == 3

ModuleNames == {"NFTs2Me", "OpenSea"}

\* String.prototype.toLowerCase on the names in use
toLowerCase(name) ==
    CASE name = "NFTs2Me" -> "nfts2me"
      [] name = "OpenSea" -> "opensea"
      [] OTHER -> name

\* The --platform values typed: the module names in lower or mixed case,
\* 'generic', and the name of a module that is not registered
ForceNames == {"nfts2me", "OpenSea", "generic", "zora"}

\* What analyze returns or throws, and by whom: by = 0 is the generic
\* analyzer, by = i the i-th registered module
Snapshot(modules, i) ==
    [kind |-> "snapshot", by |-> i,
     platform |-> IF i = 0 THEN "generic" ELSE toLowerCase(modules[i])]
Thrown(i) == [kind |-> "error", by |-> i, platform |-> ""]

\* genericAnalyze: the fallback, which always returns a snapshot
genericAnalyze(modules) ==
    [calls |-> <<>>, result |-> Snapshot(modules, 0)]

\* the loop without its try/catch: an exception leaves analyze
RECURSIVE autoDetectNoCatch(_, _, _, _)
autoDetectNoCatch(modules, i, det, ana) ==
    IF i > Len(modules) THEN genericAnalyze(modules)
    ELSE IF det[i] = "throws"
    THEN [calls |-> << <<"detect", i>> >>, result |-> Thrown(i)]
    ELSE IF det[i] = "true"
    THEN [calls |-> << <<"detect", i>>, <<"analyze", i>> >>,
          result |-> IF ana[i] = "ok" THEN Snapshot(modules, i) ELSE Thrown(i)]
    ELSE LET rest == autoDetectNoCatch(modules, i + 1, det, ana)
         IN  [calls |-> << <<"detect", i>> >> \o rest.calls,
              result |-> rest.result]

\* for (const module of this.modules) { try { detect; if (isMatch) return
\* await analyze } catch { continue } }; then genericAnalyze
RECURSIVE autoDetect(_, _, _, _)
autoDetect(modules, i, det, ana) ==
    IF i > Len(modules) THEN genericAnalyze(modules)
    ELSE LET rest == autoDetect(modules, i + 1, det, ana)
         IN  IF det[i] = "true"
             THEN IF ana[i] = "ok"
                  THEN [calls |-> << <<"detect", i>>, <<"analyze", i>> >>,
                        result |-> Snapshot(modules, i)]
                  ELSE [calls |-> << <<"detect", i>>, <<"analyze", i>> >>
                                  \o rest.calls,
                        result |-> rest.result]
             ELSE [calls |-> << <<"detect", i>> >> \o rest.calls,
                   result |-> rest.result]

\* this.modules.find(m => m.name.toLowerCase() === forcePlatform.toLowerCase()):
\* the index of the first match, 0 when there is none
findForced(modules, forcePlatform) ==
    IF \E i \in DOMAIN modules : toLowerCase(modules[i]) = toLowerCase(forcePlatform)
    THEN CHOOSE i \in DOMAIN modules :
           /\ toLowerCase(modules[i]) = toLowerCase(forcePlatform)
           /\ \A j \in 1..(i - 1) : toLowerCase(modules[j]) # toLowerCase(forcePlatform)
    ELSE 0

\* an analyze that ignores forcePlatform
managerAnalyzeUnforced(modules, forcePlatform, det, ana) ==
    autoDetect(modules, 1, det, ana)

\* PlatformManager.analyze(address, forcePlatform); forcePlatform is None
\* or Some(name)
managerAnalyze(modules, forcePlatform, det, ana) ==
    IF /\ forcePlatform # None
       /\ forcePlatform[1] # "generic"
       /\ findForced(modules, forcePlatform[1]) # 0
    THEN LET i == findForced(modules, forcePlatform[1])
         IN  [calls |-> << <<"analyze", i>> >>,
              result |-> IF ana[i] = "ok" THEN Snapshot(modules, i)
                         ELSE Thrown(i)]
    ELSE autoDetect(modules, 1, det, ana)

\* manager.registerModule(module)
registerModule(name) ==
    /\ pm.op = "idle"
    /\ Len(pm.modules) < NumModules
    /\ pm' = [pm EXCEPT !.modules = Append(pm.modules, name)]
    /\ UNCHANGED <<monVars, engVars, snipe, ga>>

\* One analyze request, from the call to its return
pmAnalyze(forcePlatform, det, ana) ==
    /\ pm.op = "idle"
    /\ LET r == managerAnalyze(pm.modules, forcePlatform, det, ana)
       IN  pm' = [op |-> "done", modules |-> pm.modules,
                  forcePlatform |-> forcePlatform, det |-> det, ana |-> ana,
                  calls |-> r.calls, result |-> r.result]
    /\ UNCHANGED <<monVars, engVars, snipe, ga>>

\* The caller takes the result; the registry stays
pmReturn ==
    /\ pm.op = "done"
    /\ pm' = [op |-> "idle", modules |-> pm.modules]
    /\ UNCHANGED <<monVars, engVars, snipe, ga>>

InitManager ==
    /\ isMonitoring = FALSE
    /\ monitorIntervalId = NoTimer
    /\ liveTimers = {}
    /\ timerQty = <<>>
    /\ checks = EmptyBag
    /\ started = 0
    /\ lastResult = ""
    /\ currentContract = None
    /\ platformContract = None
    /\ preparedTx = None
    /\ lastSent = None
    /\ userStopped = {}
    /\ prepLog = EmptyBag
    /\ pm = [op |-> "idle", modules |-> <<>>]
    /\ snipe = Idle
    /\ ga = Idle

\* forcePlatform: absent, or a name
ForcePlatforms == {None} \cup {Some(f) : f \in ForceNames}

NextManager ==
    \/ \E name \in ModuleNames : registerModule(name)
    \/ \E forcePlatform \in ForcePlatforms,
          det \in [DOMAIN pm.modules -> {"true", "false", "throws"}],
          ana \in [DOMAIN pm.modules -> {"ok", "throws"}] :
          pmAnalyze(forcePlatform, det, ana)
    \/ pmReturn

SpecManager == InitManager /\ [][NextManager]_vars

Called(call) == \E k \in DOMAIN pm.calls : pm.calls[k] = call

\* C4: in auto-detection, when two registered modules both detect the
\* address, the snapshot returned is the earlier module's and the later
\* module's analyze is never invoked.
C4_EarlierModuleWins ==
    (pm.op = "done" /\ pm.forcePlatform = None) =>
      \A i, j \in DOMAIN pm.modules :
        (/\ i < j
         /\ pm.det[i] = "true"
         /\ pm.det[j] = "true"
         /\ \A h \in 1..(i - 1) : pm.det[h] # "true")
        => /\ pm.result.kind = "snapshot" => pm.result.by = i
           /\ ~Called(<<"analyze", j>>)

\* C21: in auto-detection the first module whose detect returned true
\* decides the result: its snapshot is returned when its analyze succeeds
\* and its failure is returned when its analyze raises, and no later module
\* is consulted.
C21_FirstDetectedDecides ==
    (pm.op = "done" /\ pm.forcePlatform = None) =>
      \A i \in DOMAIN pm.modules :
        (pm.det[i] = "true" /\ \A h \in 1..(i - 1) : pm.det[h] # "true")
        => /\ pm.result.by = i
           /\ pm.result.kind = (IF pm.ana[i] = "ok" THEN "snapshot" ELSE "error")
           /\ \A j \in DOMAIN pm.modules :
                j > i => ~Called(<<"detect", j>>) /\ ~Called(<<"analyze", j>>)

\* A forced request whose name matches a registered module
ForcedRegistered ==
    /\ pm.op = "done"
    /\ pm.forcePlatform # None
    /\ \E i \in DOMAIN pm.modules :
         toLowerCase(pm.modules[i]) = toLowerCase(pm.forcePlatform[1])

\* C5: when forcePlatform names a registered module, no detect is called
\* and the result is that module's analyze result, whatever the modules'
\* detect would have returned.
C5_ForcedSkipsDetect ==
    ForcedRegistered =>
      \E i \in DOMAIN pm.modules :
        /\ toLowerCase(pm.modules[i]) = toLowerCase(pm.forcePlatform[1])
        /\ pm.calls = << <<"analyze", i>> >>
        /\ pm.result.by = i
        /\ pm.result.kind = (IF pm.ana[i] = "ok" THEN "snapshot" ELSE "error")

\* C5 witness: the forced module would not have detected the address and
\* an earlier module would have
C5_Witness ==
    /\ ForcedRegistered
    /\ pm.result.kind = "snapshot"
    /\ pm.result.by = 2
    /\ pm.det[2] = "false"
    /\ pm.det[1] = "true"
    /\ pm.ana[1] = "ok"

\* det with every "throws" turned into "false"
ThrowsAsFalse(det) ==
    [i \in DOMAIN det |-> IF det[i] = "throws" THEN "false" ELSE det[i]]

\* C9: a detect that raises is not propagated: analyze goes on to the next
\* module and ends as it would have had that detect returned false.
C9_DetectThrowsAsFalse ==
    (pm.op = "done" /\ pm.forcePlatform = None) =>
      /\ pm.result.kind = "error" => pm.result.by # 0 /\ pm.det[pm.result.by] # "throws"
      /\ \A i \in DOMAIN pm.modules :
           (pm.det[i] = "throws" /\ Called(<<"detect", i>>) /\ i < Len(pm.modules))
           => Called(<<"detect", i + 1>>)
      /\ LET asFalse == managerAnalyze(pm.modules, None, ThrowsAsFalse(pm.det), pm.ana)
         IN  /\ pm.result = asFalse.result
             /\ pm.calls = asFalse.calls

\* C9 witness: the first module's detect raises and the second module's
\* snapshot is returned
C9_Witness ==
    /\ pm.op = "done"
    /\ pm.forcePlatform = None
    /\ Len(pm.modules) >= 2
    /\ pm.det[1] = "throws"
    /\ pm.det[2] = "true"
    /\ pm.result = Snapshot(pm.modules, 2)

\* A forced request whose name is neither 'generic' nor a registered
\* module's
ForcedUnregistered ==
    /\ pm.op = "done"
    /\ pm.forcePlatform # None
    /\ pm.forcePlatform[1] # "generic"
    /\ \A i \in DOMAIN pm.modules :
         toLowerCase(pm.modules[i]) # toLowerCase(pm.forcePlatform[1])

\* C17: when the forced platform name matches no registered module, analyze
\* fails: it returns no snapshot and runs no module's detect or analyze.
C17_UnknownForcedFails ==
    ForcedUnregistered =>
      /\ pm.result.kind = "error"
      /\ pm.calls = <<>>

----------------------------------------------------------------------------
\* ViemContractAnalyzer.analyze: getPrice.  The candidate reads are issued
\* together and settle one at a time, in any order; an outcome is None (the
\* read rejects) or Some(v) (it fulfils with v).

\* candidate price reads raced (cost, price, mintPrice, ...)
NumPriceCalls == 3

\* a race in which a later fulfilment replaces the value
anyResolveLast(price, outcome, pendingAfter) ==
    IF outcome # None THEN outcome
    ELSE IF price = None /\ pendingAfter = {} THEN Some(0)
    ELSE price

\* What getPrice has returned once a candidate settles with `outcome`,
\* `price` being what it had returned before (None: still awaiting
\* Promise.any) and pendingAfter the candidates still pending: the first
\* fulfilment resolves Promise.any; the last rejection of an all-rejected
\* race makes it throw into the catch, which returns BigInt(0).
anyResolve(price, outcome, pendingAfter) ==
    IF price # None THEN price
    ELSE IF outcome # None THEN outcome
    ELSE IF pendingAfter = {} THEN Some(0)
    ELSE None

\* Every candidate pending, none settled, Promise.any awaited
RaceStarted ==
    [op |-> "racing", pending |-> 1..NumPriceCalls, log |-> <<>>,
     price |-> None]

\* getPrice() is called: the candidate reads are issued
priceStart ==
    /\ ga.op = "idle"
    /\ ga' = RaceStarted
    /\ UNCHANGED <<monVars, engVars, pm, snipe>>

\* Candidate i settles
priceSettle(i, outcome) ==
    /\ ga.op = "racing"
    /\ i \in ga.pending
    /\ ga' = [ga EXCEPT
         !.pending = ga.pending \ {i},
         !.log = Append(ga.log, [call |-> i, outcome |-> outcome]),
         !.price = anyResolve(ga.price, outcome, ga.pending \ {i})]
    /\ UNCHANGED <<monVars, engVars, pm, snipe>>

PriceOutcomes == {None} \cup {Some(v) : v \in 0..MaxPrice}

NextPrice ==
    \/ priceStart
    \/ \E i \in 1..NumPriceCalls, outcome \in PriceOutcomes :
          priceSettle(i, outcome)

SpecPrice == InitEngine /\ [][NextPrice]_vars

\* The settlements so far that fulfilled, in order
Fulfilled == SelectSeq(ga.log, LAMBDA e : e.outcome # None)
AllRejected ==
    /\ ga.pending = {}
    /\ \A k \in DOMAIN ga.log : ga.log[k].outcome = None

\* C7 as stated: getPrice returns the first fulfilment's value, and returns
\* zero exactly when every candidate rejects.
C7_ZeroIffAllRejected ==
    (ga.op = "racing" /\ ga.price # None) =>
      /\ Fulfilled # <<>> => ga.price = Fulfilled[1].outcome
      /\ ga.price = Some(0) <=> AllRejected

\* C7 amended: getPrice returns the value of the candidate that fulfils
\* first, whatever the later ones carry and however many reject; it has
\* returned nothing while no candidate has fulfilled and one is pending; it
\* returns zero when every candidate rejects, and otherwise only when the
\* first fulfilment's own value is zero; it never raises.
C7_FirstFulfilledWins ==
    ga.op = "racing" =>
      /\ Fulfilled # <<>> => ga.price = Fulfilled[1].outcome
      /\ AllRejected => ga.price = Some(0)
      /\ (Fulfilled = <<>> /\ ga.pending # {}) => ga.price = None
      /\ ga.price = Some(0) <=>
           (AllRejected \/ (Fulfilled # <<>> /\ Fulfilled[1].outcome = Some(0)))

\* C7 witness: A rejects, then B fulfils with 2, then C fulfils with 1, and
\* the price is 2
C7_Witness ==
    /\ ga.op = "racing"
    /\ Len(ga.log) = 3
    /\ ga.log[1].outcome = None
    /\ ga.log[2].outcome = Some(2)
    /\ ga.log[3].outcome = Some(1)
    /\ ga.price = Some(2)

----------------------------------------------------------------------------
\* ViemContractAnalyzer.analyze and PlatformManager.genericAnalyze.  Each of
\* the reads of Promise.all is None (it rejects) or Some(value).

\* fallbacks under which a contract without saleActive() counts as closed
ReadFallbacksClosed ==
    [name |-> "Unknown", totalSupply |-> 0, maxSupply |-> 0, paused |-> FALSE,
     isActive |-> TRUE, saleActive |-> FALSE, maxPerWallet |-> 0,
     walletLimit |-> 0]

\* fallbacks under which a contract without paused() counts as paused
ReadFallbacksPaused ==
    [name |-> "Unknown", totalSupply |-> 0, maxSupply |-> 0, paused |-> TRUE,
     isActive |-> TRUE, saleActive |-> TRUE, maxPerWallet |-> 0,
     walletLimit |-> 0]

\* The fallback handed to safeRead for each field
ReadFallbacks ==
    [name |-> "Unknown", totalSupply |-> 0, maxSupply |-> 0, paused |-> FALSE,
     isActive |-> TRUE, saleActive |-> TRUE, maxPerWallet |-> 0,
     walletLimit |-> 0]

\* safeRead(promise, fallback)
safeRead(outcome, fallback) == IF outcome = None THEN fallback ELSE outcome[1]

\* getPrice() over the candidates' settlements in the order they complete
RECURSIVE getPrice(_, _)
getPrice(settled, price) ==
    IF settled = <<>> THEN price[1]
    ELSE getPrice(Tail(settled),
                  anyResolve(price, Head(settled),
                             IF Len(settled) = 1 THEN {} ELSE {1}))

\* analyze(address) without a mint function override
viemAnalyze(reads, priceRace) ==
    LET name == safeRead(reads.name, ReadFallbacks.name)
        totalSupply == safeRead(reads.totalSupply, ReadFallbacks.totalSupply)
        maxSupply == safeRead(reads.maxSupply, ReadFallbacks.maxSupply)
        finalPrice == getPrice(priceRace, None)
        paused == safeRead(reads.paused, ReadFallbacks.paused)
        isActive == safeRead(reads.isActive, ReadFallbacks.isActive)
        saleActive == safeRead(reads.saleActive, ReadFallbacks.saleActive)
        maxPerWallet == safeRead(reads.maxPerWallet, ReadFallbacks.maxPerWallet)
        walletLimit == safeRead(reads.walletLimit, ReadFallbacks.walletLimit)
        isSalesActive == ~paused /\ isActive /\ saleActive
        effectiveMaxWallet == IF maxPerWallet > 0 THEN maxPerWallet
                              ELSE walletLimit
    IN  [address |-> "token", mintFunction |-> MintSig,
         mintPrice |-> finalPrice, maxSupply |-> maxSupply,
         currentSupply |-> totalSupply, isActive |-> isSalesActive,
         name |-> name, maxPerWallet |-> effectiveMaxWallet]

\* PlatformManager.genericAnalyze: the generic snapshot built from it
genericSnapshot(info) ==
    [address |-> info.address,
     name |-> IF info.name # "" THEN info.name ELSE "Unknown",
     platform |-> "generic", mintFunction |-> info.mintFunction,
     mintPrice |-> info.mintPrice, protocolFee |-> 0, creatorFee |-> 0,
     isActive |-> info.isActive, totalSupply |-> info.currentSupply,
     maxSupply |-> info.maxSupply, maxPerWallet |-> info.maxPerWallet,
     routerContract |-> None]

\* One genericAnalyze request, from the call to its return
gaAnalyze(reads, priceRace) ==
    /\ ga.op = "idle"
    /\ ga' = [op |-> "done", reads |-> reads, priceRace |-> priceRace,
              snapshot |-> genericSnapshot(viemAnalyze(reads, priceRace))]
    /\ UNCHANGED <<monVars, engVars, pm, snipe>>

\* The caller takes the snapshot
gaReturn ==
    /\ ga.op = "done"
    /\ ga' = Idle
    /\ UNCHANGED <<monVars, engVars, pm, snipe>>

\* What the contract's accessors answer, when they answer
FieldReads ==
    [name : {None, Some(""), Some("Azuki")},
     totalSupply : {None, Some(1)},
     maxSupply : {None, Some(2)},
     paused : {None, Some(TRUE), Some(FALSE)},
     isActive : {None, Some(TRUE), Some(FALSE)},
     saleActive : {None, Some(TRUE), Some(FALSE)},
     maxPerWallet : {None, Some(0), Some(2)},
     walletLimit : {None, Some(3)}]

\* The price candidates' settlements: each rejects or fulfils with 1
PriceRaces == [1..NumPriceCalls -> {None, Some(1)}]

NextGeneric ==
    \/ \E reads \in FieldReads, priceRace \in PriceRaces :
          gaAnalyze(reads, priceRace)
    \/ gaReturn

SpecGeneric == InitEngine /\ [][NextGeneric]_vars

\* C8: the generic analyzer returns a snapshot for every combination of
\* failed and successful reads; each failed read yields its field's own
\* default ('Unknown', supplies 0, price 0, paused false, isActive true,
\* saleActive true, wallet limits 0) and never changes what another read
\* resolved to.
C8_FieldsDefaultIndependently ==
    ga.op = "done" =>
      LET r == ga.reads
          snap == ga.snapshot
          paused == IF r.paused = None THEN FALSE ELSE r.paused[1]
          active == IF r.isActive = None THEN TRUE ELSE r.isActive[1]
          sale == IF r.saleActive = None THEN TRUE ELSE r.saleActive[1]
          perWallet == IF r.maxPerWallet = None THEN 0 ELSE r.maxPerWallet[1]
          limit == IF r.walletLimit = None THEN 0 ELSE r.walletLimit[1]
      IN  /\ snap.platform = "generic"
          /\ r.name = None => snap.name = "Unknown"
          /\ r.name = Some("Azuki") => snap.name = "Azuki"
          /\ snap.totalSupply = (IF r.totalSupply = None THEN 0 ELSE r.totalSupply[1])
          /\ snap.maxSupply = (IF r.maxSupply = None THEN 0 ELSE r.maxSupply[1])
          /\ (\A k \in DOMAIN ga.priceRace : ga.priceRace[k] = None)
                => snap.mintPrice = 0
          /\ (\E k \in DOMAIN ga.priceRace : ga.priceRace[k] # None)
                => snap.mintPrice = 1
          /\ snap.isActive = (~paused /\ active /\ sale)
          /\ snap.maxPerWallet = (IF perWallet > 0 THEN perWallet ELSE limit)

\* C8 witness: every read fails and the snapshot carries the defaults, an
\* active sale among them
C8_Witness ==
    /\ ga.op = "done"
    /\ \A f \in DOMAIN ga.reads : ga.reads[f] = None
    /\ \A k \in DOMAIN ga.priceRace : ga.priceRace[k] = None
    /\ ga.snapshot.name = "Unknown"
    /\ ga.snapshot.mintPrice = 0
    /\ ga.snapshot.isActive

\* C25: the generic snapshot is inactive exactly when paused() reads true or
\* isActive() or saleActive() reads false; an accessor that cannot be read
\* never makes it inactive, so a contract exposing none of the three is
\* reported active.
C25_ActivityComposition ==
    ga.op = "done" =>
      /\ ~ga.snapshot.isActive <=>
           \/ ga.reads.paused = Some(TRUE)
           \/ ga.reads.isActive = Some(FALSE)
           \/ ga.reads.saleActive = Some(FALSE)
      /\ (/\ ga.reads.paused = None
          /\ ga.reads.isActive = None
          /\ ga.reads.saleActive = None) => ga.snapshot.isActive

\* C25 witness: a contract with a name and supplies and none of the three
\* status accessors is reported active
C25_Witness ==
    /\ ga.op = "done"
    /\ ga.reads.name = Some("Azuki")
    /\ ga.reads.totalSupply # None
    /\ ga.reads.paused = None
    /\ ga.reads.isActive = None
    /\ ga.reads.saleActive = None
    /\ ga.snapshot.isActive

----------------------------------------------------------------------------
\* The monitor on a target governed by a platform module.  The contract was
\* loaded through PlatformManager.analyze by the SeaDrop module, whose
\* snapshot takes isActive from the public drop kept by the SeaDrop
\* singleton; the drop has not started and does not start.  The callback
\* polls this.analyzer.analyze, the ViemContractAnalyzer, which reads the
\* token contract's own accessors.

\* The SeaDrop module's snapshot of the token
SeaDropInfo ==
    [address |-> "token", platform |-> "opensea",
     mintFunction |-> <<"mintPublic", "">>, mintPrice |-> 1,
     protocolFee |-> 0, isActive |-> FALSE, routerContract |-> Some("seadrop")]

SeaDropContract == currentContractOf(SeaDropInfo)

\* What the token answers to the generic accessors: it has a name and
\* supplies, and no isActive(), saleActive() or wallet-limit accessor; its
\* paused() is absent or reads false
SeaDropTokenReads ==
    [name : {Some("Azuki")}, totalSupply : {Some(1)}, maxSupply : {Some(2)},
     paused : {None, Some(FALSE)}, isActive : {None}, saleActive : {None},
     maxPerWallet : {None}, walletLimit : {None}]

\* The token has no price accessor either: every candidate rejects
NoPriceRead == [i \in 1..NumPriceCalls |-> None]

\* freshInfo.isActive of this.analyzer.analyze(address)
pollOutcome(reads) ==
    IF viemAnalyze(reads, NoPriceRead).isActive THEN "active" ELSE "inactive"

InitPlatformMonitor ==
    /\ isMonitoring = FALSE
    /\ monitorIntervalId = NoTimer
    /\ liveTimers = {}
    /\ timerQty = <<>>
    /\ checks = EmptyBag
    /\ started = 0
    /\ lastResult = ""
    /\ currentContract = Some(SeaDropContract)
    /\ platformContract = Some(SeaDropInfo)
    /\ preparedTx = None
    /\ lastSent = None
    /\ userStopped = {}
    /\ prepLog = EmptyBag
    /\ pm = Idle
    /\ snipe = Idle
    /\ ga = Idle

NextPlatformMonitor ==
    \/ \E qty \in MonitorQtys : handleMonitor(qty)
    \/ handleStop
    \/ \E t \in 1..MaxSessions : intervalTick(t)
    \/ \E c \in BagToSet(checks), reads \in SeaDropTokenReads :
          analyzeDone(c, pollOutcome(reads))
    \/ \E c \in BagToSet(checks) : analyzeDone(c, "throws")
    \/ \E c \in BagToSet(checks), ok \in BOOLEAN : gasDone(c, ok)
    \/ \E c \in BagToSet(checks), sim \in SimOutcomes :
          prepareDone(c, sim, Some(1))

SpecPlatformMonitor == InitPlatformMonitor /\ [][NextPlatformMonitor]_vars

\* C14: the decision to trigger is taken on a snapshot resolved by the
\* analyze path that loaded the target: while the platform module's
\* snapshot of the target reports isActive = false, the monitor prepares
\* and sends no mint.
C14_NoMintWhileModuleInactive ==
    (/\ platformContract # None
     /\ platformContract[1].platform # "generic"
     /\ ~platformContract[1].isActive)
    => /\ prepLog = EmptyBag
       /\ lastSent = None

\* C15: at most one polling timer exists, and it is the stored one while a
\* session is active; while a session is active no step, a further
\* "snipe monitor" included, creates a timer or changes the quantity a
\* session runs with.
C15_SingleSession ==
    /\ [](/\ Cardinality(liveTimers) <= 1
          /\ isMonitoring => liveTimers = {monitorIntervalId})
    /\ [][isMonitoring =>
            /\ liveTimers' \subseteq liveTimers
            /\ timerQty' = timerQty
            /\ monitorIntervalId' \in {monitorIntervalId, NoTimer}]_vars

\* C15 witness: "snipe monitor" was typed while a session was polling and
\* was refused; the session's timer is the only one
C15_Witness ==
    /\ isMonitoring
    /\ lastResult = "already monitoring"
    /\ liveTimers = {monitorIntervalId}
    /\ started > 0

\* C16: stopMonitor is idempotent.  Every "snipe stop" leaves no timer
\* handle and no active flag and fires no mint; typed in a state that has
\* neither (after a stop, or with no session) it changes no timer, no flag
\* and no mint.
C16_StopIdempotent ==
    [][handleStop =>
         /\ ~isMonitoring'
         /\ monitorIntervalId' = NoTimer
         /\ monitorIntervalId' \notin liveTimers'
         /\ prepLog' = prepLog
         /\ lastSent' = lastSent
         /\ (~isMonitoring /\ monitorIntervalId = NoTimer) =>
               /\ liveTimers' = liveTimers
               /\ checks' = checks
               /\ userStopped' = userStopped]_vars

\* C16 witness: a session was stopped, and a second "snipe stop" found
\* nothing to stop
C16_Witness ==
    /\ lastResult = "nothing to stop"
    /\ userStopped # {}
    /\ ~isMonitoring
    /\ monitorIntervalId = NoTimer
    /\ liveTimers = {}

----------------------------------------------------------------------------
\* The two front ends that accept "mint": the browser terminal
\* (TerminalController.executeCommand over CommandParser.parse) and the
\* headless CLI (cli.ts).  An input line is the sequence of its
\* whitespace-separated tokens.

\* The number of leading dashes a token is tested for: 2 when it
\* startsWith('--'), 1 when it only startsWith('-'), 0 otherwise
Dashes(token) ==
    CASE token \in {"--turbo", "--qty"} -> 2
      [] token \in {"-t"} -> 1
      [] OTHER -> 0

\* token.slice(2) of a long flag, token.slice(1) of a short one
FlagName(token) ==
    CASE token = "--turbo" -> "turbo"
      [] token = "--qty" -> "qty"
      [] token = "-t" -> "t"
      [] OTHER -> token

\* Number(text) and parseInt(text) on the tokens in use; 0 stands for NaN
Number(text) ==
    CASE text = "1" -> 1
      [] text = "2" -> 2
      [] text = "3" -> 3
      [] OTHER -> 0

\* flags = {}
NoFlags == [name \in {} |-> <<>>]

\* CommandParser.parse, its loop from token i on.  A flag's value is <<>>
\* when the parser stored true and <<text>> when it stored the next token.
RECURSIVE parseFrom(_, _, _, _)
parseFrom(tokens, i, args, flags) ==
    IF i > Len(tokens) THEN [command |-> tokens[1], args |-> args, flags |-> flags]
    ELSE IF Dashes(tokens[i]) > 0
    THEN IF i + 1 <= Len(tokens) /\ Dashes(tokens[i + 1]) = 0
         THEN parseFrom(tokens, i + 2, args,
                        (FlagName(tokens[i]) :> <<tokens[i + 1]>>) @@ flags)
         ELSE parseFrom(tokens, i + 1, args,
                        (FlagName(tokens[i]) :> <<>>) @@ flags)
    ELSE parseFrom(tokens, i + 1, Append(args, tokens[i]), flags)

parse(tokens) == parseFrom(tokens, 2, <<>>, NoFlags)

\* flags[name] is set and truthy
flagSet(flags, name) == name \in DOMAIN flags /\ flags[name] # <<"">>

\* handleSnipe: const qty = flags.qty ? Number(flags.qty) : 1
snipeQty(flags) ==
    IF ~flagSet(flags, "qty") THEN 1
    ELSE IF flags["qty"] = <<>> THEN 1
    ELSE Number(flags["qty"][1])

\* handleSnipe: const turbo = flags.turbo || flags.t ? true : false
snipeTurbo(flags) == flagSet(flags, "turbo") \/ flagSet(flags, "t")

\* handleSnipe(args, flags) for args[0] = 'start', without a price flag
handleSnipe(args, flags) ==
    /\ args # <<>>
    /\ args[1] = "start"
    /\ snipeQty(flags) >= 1
    /\ \E sim \in SimOutcomes :
         handleSnipeStart(snipeQty(flags), snipeTurbo(flags), None,
                          MonitorFeeData, sim, Some(1))

\* executeCommand(input): the 'snipe' / 's' and the 'mint' / 'm' cases
executeCommand(input) ==
    LET parsed == parse(input)
    IN  \/ /\ parsed.command \in {"snipe", "s"}
           /\ handleSnipe(parsed.args, parsed.flags)
        \/ /\ parsed.command \in {"mint", "m"}
           /\ LET qty == IF parsed.args # <<>> THEN parsed.args[1] ELSE "1"
              IN  handleSnipe(<<"start">>, "qty" :> <<qty>>)

\* cli.ts: the 'mint' / 'm' command; args = parts.slice(1)
cliMint(input) ==
    LET args == Tail(input)
        parsedQty == IF args # <<>> THEN Number(args[1]) ELSE 0
        qty == IF parsedQty # 0 THEN parsedQty ELSE 1
        turbo == \E k \in DOMAIN args : args[k] \in {"-t", "--turbo"}
    IN  /\ input[1] \in {"mint", "m"}
        /\ currentContract # None
        /\ \E sim \in SimOutcomes :
             enginePrepare(currentContract[1], qty, MonitorFeeData, turbo,
                           None, turbo, sim, Some(1))

\* The lines typed
CommandInputs ==
    { <<"mint">>, <<"mint", "1">>, <<"m", "2">>, <<"mint", "3">>,
      <<"mint", "1", "--turbo">>, <<"m", "2", "-t">>, <<"mint", "3", "--turbo">>,
      <<"snipe", "start", "--qty", "1">>,
      <<"snipe", "start", "--qty", "2", "--turbo">>,
      <<"s", "start", "-t">> }

\* mint <qty> --turbo, mint <qty> -t
TurboMintInputs ==
    { input \in CommandInputs :
        /\ input[1] \in {"mint", "m"}
        /\ Len(input) = 3
        /\ input[3] \in {"--turbo", "-t"} }

NextCommand ==
    \/ \E input \in CommandInputs : executeCommand(input)
    \/ \E input \in CommandInputs : cliMint(input)

SpecCommand == InitMonitor /\ [][NextCommand]_vars

\* C18: "mint <qty> --turbo" (or -t) prepares the mint with the simulation
\* skipped and with the 10 x priority-fee quote, in the browser terminal
\* and in the headless CLI.
C18_MintTurbo ==
    [][\A input \in TurboMintInputs :
         (executeCommand(input) \/ cliMint(input)) =>
            /\ snipe'.turbo
            /\ snipe'.result.rpc = <<>>
            /\ snipe'.result.tx # None
            /\ snipe'.result.tx[1].gas = 500000
            /\ snipe'.result.tx[1].maxPriorityFeePerGas =
                 10 * getGasPrice(MonitorFeeData, FALSE).maxPriorityFeePerGas]_vars

\* The sessions whose tick observed isActive = true: those with a callback
\* inside handleSnipe, and those whose prepareTransaction was started
Triggered ==
    {c.timer : c \in {x \in BagToSet(checks) : x.pc \in {"gas", "prepare"}}}
      \cup {e.timer : e \in BagToSet(prepLog)}

\* C19: the step in which a tick observes isActive = true clears the
\* polling timer and resets the flag, and starts no prepareTransaction;
\* from then on the session of that tick has no timer and is not the stored
\* one, through the mint attempt and after it, whether it succeeds or
\* raises; ticks are started by live timers only, and only "snipe monitor"
\* creates a timer or sets the flag.
C19_TriggerStopsFirst ==
    /\ [](\A t \in Triggered :
             t \notin liveTimers /\ monitorIntervalId # t)
    /\ [][(\E c \in BagToSet(checks) : analyzeDone(c, "active")) =>
             /\ ~isMonitoring'
             /\ liveTimers' = {}
             /\ monitorIntervalId' = NoTimer
             /\ prepLog' = prepLog]_vars
    /\ [][/\ started' # started => liveTimers # {}
          /\ ((isMonitoring' /\ ~isMonitoring) \/ ~(liveTimers' \subseteq liveTimers))
               => \E qty \in MonitorQtys : handleMonitor(qty)]_vars

\* C19 witness: a tick observed an active sale, its mint was prepared and
\* sent, every callback has ended, and the monitor is idle
C19_Witness ==
    /\ prepLog # EmptyBag
    /\ lastSent # None
    /\ checks = EmptyBag
    /\ ~isMonitoring
    /\ liveTimers = {}
    /\ monitorIntervalId = NoTimer

\* C20: a tick whose analyze call raises leaves the timer, the stored
\* handle and the flag as they were, starts no handleSnipe and sends no
\* mint, whatever happened to earlier ticks; while the session polls after
\* a failed check its timer is live and its next tick can run.
C20_FailedCheckKeepsPolling ==
    /\ [][\A c \in BagToSet(checks) :
             analyzeDone(c, "throws") =>
                /\ isMonitoring' = isMonitoring
                /\ liveTimers' = liveTimers
                /\ monitorIntervalId' = monitorIntervalId
                /\ checks' = BagRemove(checks, c)
                /\ prepLog' = prepLog
                /\ preparedTx' = preparedTx
                /\ lastSent' = lastSent]_vars
    /\ []((lastResult = "check failed" /\ isMonitoring) =>
             /\ monitorIntervalId \in liveTimers
             /\ started < MaxChecks => ENABLED intervalTick(monitorIntervalId))

\* C20 witness: every check of the first session has ended, the last one
\* by a failed analyze call; nothing was minted and the session still polls
C20_Witness ==
    /\ lastResult = "check failed"
    /\ started = MaxChecks
    /\ checks = EmptyBag
    /\ prepLog = EmptyBag
    /\ lastSent = None
    /\ isMonitoring
    /\ userStopped = {}
    /\ liveTimers = {monitorIntervalId}

----------------------------------------------------------------------------
\* SeaDropModule.analyze and a target loaded through it.  publicDrop is what
\* getPublicDrop on the SeaDrop singleton answers: None when the read
\* throws, else Some of the drop's mintPrice, startTime and endTime; now is
\* Math.floor(Date.now() / 1000).

\* the clock and the drop's times range over 0..MaxTime
MaxTime == 2

\* SEADROP_ADDRESSES[chainId]
SeaDropAddress == "seadrop"

\* The snapshot SeaDropModule.analyze returns for the token
seaDropAnalyze(publicDrop, now) ==
    [address |-> "token", platform |-> "opensea",
     mintFunction |-> <<"mintPublic", "">>,
     mintPrice |-> IF publicDrop = None THEN 0 ELSE publicDrop[1].mintPrice,
     protocolFee |-> 0,
     isActive |-> IF publicDrop = None THEN FALSE
                  ELSE /\ now >= publicDrop[1].startTime
                       /\ now <= publicDrop[1].endTime,
     routerContract |-> Some(SeaDropAddress)]

\* "contract load <token>" resolved by the SeaDrop module: handleContract
\* stores the module's snapshot as this.platformContract and its
\* ContractInfo as this.currentContract
loadSeaDrop(publicDrop, now) ==
    LET platformInfo == seaDropAnalyze(publicDrop, now)
    IN  /\ ga' = [op |-> "seadrop", publicDrop |-> publicDrop, now |-> now,
                  snapshot |-> platformInfo]
        /\ platformContract' = Some(platformInfo)
        /\ currentContract' = Some(currentContractOf(platformInfo))
        /\ snipe' = [op |-> "load"]

\* What getPublicDrop answers
PublicDrops ==
    {None} \cup {Some(d) : d \in [mintPrice : {1, MaxPrice},
                                  startTime : 0..MaxTime,
                                  endTime : 0..MaxTime]}

\* The quantities typed after a SeaDrop load
SeaDropQtys == {1, MaxQty}

NextSeaDrop ==
    \/ \E publicDrop \in PublicDrops, now \in 0..MaxTime :
          /\ loadSeaDrop(publicDrop, now)
          /\ UNCHANGED <<monVars, preparedTx, lastSent, pm>>
    \/ \E qty \in SeaDropQtys, turbo \in BOOLEAN :
          /\ handleSnipeStart(qty, turbo, None, MonitorFeeData, None, Some(1))
          /\ UNCHANGED ga

SpecSeaDrop == InitEngine /\ [][NextSeaDrop]_vars

\* C22: a transaction prepared for a snapshot that carries routerContract
\* is addressed to the router and not to the token contract.
C22_AddressedToRouter ==
    (/\ snipe.op = "snipe"
     /\ snipe.error = ""
     /\ snipe.result.tx # None
     /\ platformContract # None
     /\ platformContract[1].routerContract # None)
    => /\ snipe.result.tx[1].to = platformContract[1].routerContract[1]
       /\ snipe.result.tx[1].to # platformContract[1].address

\* C23: the SeaDrop snapshot is active exactly when start <= now < end;
\* when the public-drop read fails it is inactive with price 0.
C23_HalfOpenWindow ==
    ga.op = "seadrop" =>
      IF ga.publicDrop = None
      THEN ~ga.snapshot.isActive /\ ga.snapshot.mintPrice = 0
      ELSE ga.snapshot.isActive <=>
             /\ ga.publicDrop[1].startTime <= ga.now
             /\ ga.now < ga.publicDrop[1].endTime

\* C26: when the check of a session the user stopped completes while a
\* later session polls, it leaves the later session's timer and flag alone
\* and starts no snipe.
C26_StaleCheckHarmless ==
    [][\A c \in BagToSet(checks) :
         (/\ c.timer \in userStopped
          /\ isMonitoring
          /\ monitorIntervalId # c.timer
          /\ \E outcome \in AnalyzeOutcomes : analyzeDone(c, outcome))
         => /\ isMonitoring'
            /\ liveTimers' = liveTimers
            /\ monitorIntervalId' = monitorIntervalId
            /\ checks' = BagRemove(checks, c)]_vars

----------------------------------------------------------------------------
\* The engine's two-step interface: prepareTransaction, then execute().

\* execute() with nothing prepared throws before anything is sent
NothingPrepared ==
    [op |-> "execute", sent |-> None, error |-> "No transaction prepared"]

\* execute() with wallet and account set: this.preparedTx is handed to
\* walletClient.sendTransaction, which resolves (ok) or throws
engineExecute(ok) ==
    /\ IF preparedTx = None
       THEN /\ ga' = NothingPrepared
            /\ UNCHANGED lastSent
       ELSE /\ ga' = [op |-> "execute", sent |-> preparedTx,
                      error |-> IF ok THEN "" ELSE "Mint execution failed"]
            /\ lastSent' = preparedTx
    /\ UNCHANGED <<monVars, currentContract, platformContract, preparedTx,
                   pm, snipe>>

\* The quantities prepared
ExecuteQtys == {1, MaxQty}

\* What estimateGas answers to these prepares
ExecuteGasEstimate == Some(GasEstimateUnit)

NextExecute ==
    \/ \E quantity \in ExecuteQtys, skipSimulation \in BOOLEAN,
          sim \in SimOutcomes :
          enginePrepare(LoadedContract, quantity, MonitorFeeData, FALSE, None,
                        skipSimulation, sim, ExecuteGasEstimate)
    \/ \E ok \in BOOLEAN : engineExecute(ok)

SpecExecute == InitEngine /\ [][NextExecute]_vars

\* C27: execute() hands to sendTransaction the transaction the most recent
\* prepareTransaction returned, and nothing when that call raised.
C27_ExecuteSendsLatestPrepared ==
    [][((\E ok \in BOOLEAN : engineExecute(ok)) /\ snipe.op = "prepare") =>
         /\ ga'.sent = snipe.result.tx
         /\ snipe.result.tx = None => lastSent' = lastSent]_vars

----------------------------------------------------------------------------
\* The monitor with the snapshot each poll resolves.  The contract was loaded
\* at price 1; the price the token answers may have changed by the time a
\* poll finds the sale active.

\* What the token answers to a poll's reads
FreshReads ==
    [name : {Some("Azuki")}, totalSupply : {Some(1)}, maxSupply : {Some(2)},
     paused : {Some(FALSE)}, isActive : {Some(TRUE), Some(FALSE)},
     saleActive : {None}, maxPerWallet : {None}, walletLimit : {None}]

\* The price candidates of a poll: the first fulfils, the others reject
FreshPriceRaces ==
    {[i \in 1..NumPriceCalls |-> IF i = 1 THEN Some(p) ELSE None] :
       p \in {1, MaxPrice}}

\* The callback c resumes with freshInfo = await this.analyzer.analyze(...).
\* On freshInfo.isActive it calls stopMonitor and handleSnipe(['start'],
\* {qty}), which reads this.currentContract and this.platformContract and
\* runs to its await of getGasPrice; fresh keeps what the poll resolved.
freshDone(c, freshInfo) ==
    /\ c \in BagToSet(checks)
    /\ c.pc = "analyze"
    /\ IF freshInfo.isActive
       THEN /\ stopMonitor
            /\ checks' = BagAdd(BagRemove(checks, c),
                 [timer |-> c.timer, qty |-> c.qty, pc |-> "gas",
                  priceOverride |->
                      snipePriceOverride(None, platformContract,
                                         currentContract[1], c.qty),
                  fresh |-> freshInfo])
       ELSE /\ checks' = BagRemove(checks, c)
            /\ UNCHANGED <<isMonitoring, monitorIntervalId, liveTimers>>
    /\ UNCHANGED <<timerQty, started, lastResult, userStopped, prepLog,
                   engVars, pm, snipe, ga>>

NextFreshMonitor ==
    \/ \E qty \in MonitorQtys : handleMonitor(qty)
    \/ handleStop
    \/ \E t \in 1..MaxSessions : intervalTick(t)
    \/ \E c \in BagToSet(checks), reads \in FreshReads,
          priceRace \in FreshPriceRaces :
          freshDone(c, viemAnalyze(reads, priceRace))
    \/ \E c \in BagToSet(checks) : analyzeDone(c, "throws")
    \/ \E c \in BagToSet(checks), ok \in BOOLEAN : gasDone(c, ok)
    \/ \E c \in BagToSet(checks), sim \in SimOutcomes :
          prepareDone(c, sim, Some(1))

SpecFreshMonitor == InitMonitor /\ [][NextFreshMonitor]_vars

\* C29: the transaction the monitor prepares and sends carries the price,
\* the total value and the mint function of the snapshot that the
\* triggering poll resolved.
C29_MintUsesFreshSnapshot ==
    [][\A c \in BagToSet(checks) :
         (c.pc = "prepare" /\ prepareDone(c, None, Some(1))) =>
            /\ lastSent' # None
            /\ lastSent'[1].value = c.fresh.mintPrice * c.qty
            /\ lastSent'[1].data.fn = c.fresh.mintFunction[1]]_vars

----------------------------------------------------------------------------
\* providerStorage: the providers store and the active provider kept in
\* localStorage, beside the keys of the old format.  The storage is the
\* record ga: providers is the parsed 'pelz_providers' object, a function
\* from the stored names to their configs; the other fields are the items
\* 'pelz_active_provider', 'pelz_provider_name', 'pelz_provider_key',
\* 'pelz_alchemy_key' and 'pelz_quicknode_endpoint', with "" for an item
\* that is absent or empty.  migrations counts the calls of
\* migrateOldStorage and cleared tells that the user's last choice was the
\* public RPC.

\* migrateOldStorage is called at most MaxMigrations times in a run
MaxMigrations == 3

\* { key } and { endpoint, token }
KeyConfig(key) == [key |-> key, endpoint |-> "", token |-> ""]
QuickNodeConfig(endpoint, token) ==
    [key |-> "", endpoint |-> endpoint, token |-> token]

\* setActiveProvider(name) on a storage holding providers and active: the
\* active item afterwards
setActiveProvider(providers, active, name) ==
    IF name = "" THEN ""
    ELSE IF name \in DOMAIN providers THEN name
    ELSE active

\* migrateOldStorage(): the storage it leaves.  The local providers object
\* is saved at the end; setActiveProvider reads the stored one.
migrateOldStorage(s) ==
    LET stored == s.providers
        withAlchemy ==
            IF s.oldAlchemyKey # "" /\ "alchemy" \notin DOMAIN stored
            THEN ("alchemy" :> KeyConfig(s.oldAlchemyKey)) @@ stored
            ELSE stored
        hasOld == s.oldProviderName # "" /\ s.oldProviderKey # ""
        providers ==
            IF ~hasOld THEN withAlchemy
            ELSE IF s.oldProviderName = "quicknode" /\ s.oldQuicknodeEndpoint # ""
            THEN IF "quicknode" \notin DOMAIN withAlchemy
                 THEN ("quicknode" :> QuickNodeConfig(s.oldQuicknodeEndpoint,
                                                      s.oldProviderKey))
                        @@ withAlchemy
                 ELSE withAlchemy
            ELSE IF s.oldProviderName \notin DOMAIN withAlchemy
            THEN (s.oldProviderName :> KeyConfig(s.oldProviderKey))
                   @@ withAlchemy
            ELSE withAlchemy
        active ==
            IF hasOld /\ s.active = ""
            THEN setActiveProvider(stored, s.active, s.oldProviderName)
            ELSE s.active
    IN  [s EXCEPT !.providers = providers, !.active = active]

\* The page starts on a storage: what an earlier version or an earlier run
\* left
StartStorages ==
    { s \in [op : {"storage"},
             providers : {<<>>, "infura" :> KeyConfig("key")},
             active : {"", "infura"},
             oldProviderName : {"", "infura", "quicknode"},
             oldProviderKey : {"", "oldkey"},
             oldAlchemyKey : {"", "alchemykey"},
             oldQuicknodeEndpoint : {"", "endpoint"},
             migrations : {0}, cleared : {FALSE}] :
      s.active = "" \/ s.active \in DOMAIN s.providers }

storageFound(s) ==
    /\ ga.op = "idle"
    /\ ga' = s
    /\ UNCHANGED <<monVars, engVars, pm, snipe>>

\* getProviderTransport: migrateOldStorage() on every access
callMigrate ==
    /\ ga.op = "storage"
    /\ ga.migrations < MaxMigrations
    /\ ga' = [migrateOldStorage(ga) EXCEPT !.migrations = @ + 1]
    /\ UNCHANGED <<monVars, engVars, pm, snipe>>

\* "config use <name>", and "config use public" for name = ""
configUse(name) ==
    /\ ga.op = "storage"
    /\ ga' = [ga EXCEPT
                !.active = setActiveProvider(ga.providers, ga.active, name),
                !.cleared = (name = "" /\ ga.active # "")
                            \/ (ga.cleared /\ name \notin DOMAIN ga.providers)]
    /\ UNCHANGED <<monVars, engVars, pm, snipe>>

\* The names typed after "config use"
UseNames == {"", "infura", "ankr"}

NextStorage ==
    \/ \E s \in StartStorages : storageFound(s)
    \/ callMigrate
    \/ \E name \in UseNames : configUse(name)

SpecStorage == InitEngine /\ [][NextStorage]_vars

\* C30: migrateOldStorage is idempotent on the stored providers and the
\* active provider; with a legacy provider name and key and no active
\* provider the first call makes the legacy provider active; a call made
\* after the user cleared the active provider leaves it cleared.
C30_MigrateIdempotent ==
    /\ [](ga.op = "storage" =>
            LET once == migrateOldStorage(ga)
                twice == migrateOldStorage(once)
            IN  /\ twice.providers = once.providers
                /\ twice.active = once.active)
    /\ [][callMigrate =>
            /\ (/\ ga.migrations = 0
                /\ ga.oldProviderName # ""
                /\ ga.oldProviderKey # ""
                /\ ga.active = "") => ga'.active = ga.oldProviderName
            /\ (ga.cleared /\ ga.active = "") => ga'.active = ""]_vars

\* C1: a check in flight when "snipe stop" is typed does not enter the
\* trigger path: no prepareTransaction is called for a session after the
\* user stopped it.
C1_NoPrepareAfterStop ==
    \A e \in BagToSet(prepLog) : ~e.afterStop

\* C2: within one monitor session at most one prepare+submit cycle is
\* performed, whatever the interleaving of ticks and analyze completions.
C2_OnePreparePerSession ==
    \A t \in DOMAIN timerQty :
        BagCardinality([e \in {x \in BagToSet(prepLog) : x.timer = t}
                        |-> prepLog[e]]) <= 1

====
